---- MODULE Spec2Model ----
(***************************************************************************)
(* A model of nanomock's NanoLocalManager (src/nanomock/nanomock_manager.py):*)
(* the command dispatcher, the self-healing subprocess layer, the readiness *)
(* poller and the status report.                                            *)
(***************************************************************************)
EXTENDS Integers, Sequences, FiniteSets, TLC

(***************************************************************************)
(* Bounds of the model.                                                     *)
(***************************************************************************)
\* deepest nesting of _subprocess_capture_raise calls that are explored:
\* a remediation command is itself run through _subprocess_capture_raise
MaxDepth == 2

(***************************************************************************)
(* Program constants.                                                       *)
(***************************************************************************)
\* auto_heal: "if increment >= 10: raise (error)"
MaxRetries == 10
\* _wait_for_rpc_availability: max_timeout_s: int = 15
max_timeout_s == 15
\* IEEE-754 binary64: a Python float carries 53 significant bits
FloatBits == 53

(***************************************************************************)
(* Names.  A container name is a string; Chars gives its characters, which  *)
(* is what "grep name$" looks at.                                           *)
(***************************************************************************)
\* the node names a configuration may declare
NodeNames == {"pr1", "pr2", "pr3"}
\* conf_p.get_nodes_name(): the nodes this project declares, in their order
ConfigNodes == <<"pr1", "pr2">>
\* a container of the docker host that is no node of this project
Foreign == "xpr1"
Containers == NodeNames \cup {Foreign}
\* the containers the docker host may run
HostContainers == {"pr1", "pr2", Foreign}

Chars ==
    [n \in Containers |->
        CASE n = "pr1"  -> <<"p", "r", "1">>
          [] n = "pr2"  -> <<"p", "r", "2">>
          [] n = "pr3"  -> <<"p", "r", "3">>
          [] n = "xpr1" -> <<"x", "p", "r", "1">>]

Range(s) == {s[i] : i \in 1..Len(s)}

NoDup(s) == \A i, j \in 1..Len(s) : s[i] = s[j] => i = j

\* the sequences without repetition over S of length lo..hi
SeqsNoDup(S, lo, hi) ==
    UNION {{s \in [1..n -> S] : NoDup(s)} : n \in lo..hi}

(***************************************************************************)
(* Python float arithmetic, as far as format_report_line uses it.           *)
(* A positive float is [bits, exp]: bits is its 53-bit significand, most    *)
(* significant bit first (always 1), and the value is bits * 2^exp.  Every  *)
(* operation rounds to nearest, ties to even, as IEEE-754 does.             *)
(***************************************************************************)
RECURSIVE BitsToNat(_)
BitsToNat(bits) ==
    IF bits = <<>> THEN 0
    ELSE 2 * BitsToNat(SubSeq(bits, 1, Len(bits) - 1)) + bits[Len(bits)]

RECURSIVE NatToBits(_)
\* binary digits of n, most significant first; <<>> for 0
NatToBits(n) ==
    IF n = 0 THEN <<>> ELSE Append(NatToBits(n \div 2), n % 2)

\* bits + 1, the same length; all ones wrap to all zeros
Increment(bits) ==
    LET zeros == {i \in 1..Len(bits) : bits[i] = 0}
        p     == IF zeros = {} THEN 0
                 ELSE CHOOSE i \in zeros : \A j \in zeros : j <= i
    IN  [i \in 1..Len(bits) |-> IF i < p THEN bits[i]
                                ELSE IF i = p THEN 1 ELSE 0]

\* round the significand `bits` (at least FloatBits long, leading 1), whose
\* last bit weighs 2^exp, with `sticky` telling whether non-zero digits follow
RoundNearestEven(bits, exp, sticky) ==
    LET n     == Len(bits)
        keep  == SubSeq(bits, 1, FloatBits)
        rest  == SubSeq(bits, FloatBits + 1, n)
        guard == IF rest = <<>> THEN 0 ELSE rest[1]
        tail  == sticky \/ \E i \in 2..Len(rest) : rest[i] = 1
        up    == guard = 1 /\ (tail \/ keep[FloatBits] = 1)
        inc   == Increment(keep)
        e     == exp + (n - FloatBits)
    IN  IF ~up THEN [bits |-> keep, exp |-> e]
        ELSE IF inc[1] = 1 THEN [bits |-> inc, exp |-> e]
        ELSE [bits |-> <<1>> \o SubSeq(inc, 1, FloatBits - 1), exp |-> e + 1]

RECURSIVE ScaleUp(_, _, _)
\* the least k >= 0 with a * 2^k >= b, with a * 2^k
ScaleUp(a, b, k) == IF a >= b THEN <<a, k>> ELSE ScaleUp(2 * a, b, k + 1)

RECURSIVE ScaleDown(_, _, _)
\* the least k >= 0 with a < 2 * b * 2^k, with b * 2^k
ScaleDown(a, b, k) == IF a < 2 * b THEN <<b, k>> ELSE ScaleDown(a, 2 * b, k + 1)

\* the n binary digits of x < 2^n, most significant first
Digits(x, n) ==
    LET d == NatToBits(x)
    IN  [i \in 1..(n - Len(d)) |-> 0] \o d

\* The quotient is developed ChunkBits digits at a time; with operands below
\* 2^21 no intermediate number leaves the machine integers of the checker.
ChunkBits == 9

RECURSIVE QuotientBits(_, _, _)
\* n more chunks of the binary expansion of r / b (r < b), then the remainder
QuotientBits(r, b, n) ==
    IF n = 0 THEN [bits |-> <<>>, rem |-> r]
    ELSE LET next == QuotientBits((r * 2 ^ ChunkBits) % b, b, n - 1)
         IN  [bits |-> Digits((r * 2 ^ ChunkBits) \div b, ChunkBits) \o next.bits,
              rem  |-> next.rem]

\* int / int for 0 < a, b < 2^20: the correctly rounded quotient
TrueDivide(a, b) ==
    LET up   == ScaleUp(a, b, 0)
        down == ScaleDown(up[1], b, 0)
        \* now 1 <= a2 / b2 < 2 and a / b = (a2 / b2) * 2^(down[2] - up[2])
        a2   == up[1]
        b2   == down[1]
        \* FloatBits - 1 digits after the leading 1, and at least one more
        n    == (FloatBits + ChunkBits - 1) \div ChunkBits
        q    == QuotientBits(a2 - b2, b2, n)
    IN  RoundNearestEven(<<1>> \o q.bits,
                         down[2] - up[2] - n * ChunkBits,
                         q.rem # 0)

\* The significand is multiplied in limbs of LimbBits bits, so that no
\* intermediate number leaves the machine integers of the checker.
LimbBits == 13

\* the limbs of bits, least significant first
Limbs(bits) ==
    LET n == Len(bits)
        m == (n + LimbBits - 1) \div LimbBits
    IN  [j \in 1..m |->
            LET hi == n - LimbBits * (j - 1)
                lo == IF hi - LimbBits + 1 < 1 THEN 1 ELSE hi - LimbBits + 1
            IN  BitsToNat(SubSeq(bits, lo, hi))]

RECURSIVE TimesLimbs(_, _, _)
\* the digits of limbs * k + carry, most significant first
TimesLimbs(limbs, k, carry) ==
    IF limbs = <<>> THEN NatToBits(carry)
    ELSE LET t == limbs[1] * k + carry
         IN  TimesLimbs(Tail(limbs), k, t \div (2 ^ LimbBits))
                 \o Digits(t % (2 ^ LimbBits), LimbBits)

\* the digits of bits * k for a small k > 0, without leading zeros
TimesSmall(bits, k) ==
    LET d     == TimesLimbs(Limbs(bits), k, 0)
        ones  == {i \in 1..Len(d) : d[i] = 1}
        first == CHOOSE i \in ones : \A j \in ones : i <= j
    IN  SubSeq(d, first, Len(d))

\* float * int for a small k > 0 (k is exactly a float)
FloatTimes(x, k) == RoundNearestEven(TimesSmall(x.bits, k), x.exp, FALSE)

\* math.floor of a positive float
FloatFloor(x) ==
    IF x.exp >= 0 THEN BitsToNat(x.bits) * (2 ^ x.exp)
    ELSE IF -x.exp >= Len(x.bits) THEN 0
    ELSE BitsToNat(SubSeq(x.bits, 1, Len(x.bits) + x.exp))

(***************************************************************************)
(* _generate_network_status_report                                          *)
(***************************************************************************)
\* what the version RPC answered: build_info is split at its blanks
VersionSample ==
    [node_vendor |-> "Nano V25.1", build_info |-> <<"a1b2c3d", "GNU", "C++">>]

\* (count, cemented) pairs a node's block_count RPC may answer
MetricSamples ==
    {<<0, 0>>, <<100, 40>>, <<100, 100>>, <<100, 57>>, <<99, 33>>}

Metrics(name, m) ==
    [node_name |-> name, count |-> m[1], cemented |-> m[2],
     version |-> VersionSample]

SetMax(S) == CHOOSE x \in S : \A y \in S : y <= x

max_count(nodes_block_count) ==
    SetMax({nodes_block_count[i].count : i \in 1..Len(nodes_block_count)})

\* the first entry of nodes_block_count for node_name; 0 when there is none
get_node_data(nodes_block_count, node_name) ==
    LET hits == {i \in 1..Len(nodes_block_count) :
                    nodes_block_count[i].node_name = node_name}
    IN  IF hits = {} THEN 0 ELSE CHOOSE i \in hits : \A j \in hits : i <= j

\* floor(int(cemented) / max_count * 10000), the percentage in hundredths:
\* the division by 100 and the "{:>6.2f}" that follow print it back with
\* exactly its two decimals.  Needs max_count > 0.
synced_percentage(cemented, maxc) ==
    IF cemented = 0 THEN 0
    ELSE FloatFloor(FloatTimes(TrueDivide(cemented, maxc), 10000))

format_report_line(bc, maxc) ==
    [kind         |-> "synced",
     node_name    |-> bc.node_name,
     node_version |-> <<bc.version.node_vendor, bc.version.build_info[1]>>,
     pct          |-> synced_percentage(bc.cemented, maxc),
     cemented     |-> bc.cemented,
     count        |-> bc.count]

down_line(node_name) ==
    [kind |-> "down", node_name |-> node_name, node_version |-> <<>>,
     pct |-> 0, cemented |-> 0, count |-> 0]

\* the report: [kind |-> "return", empty, lines] or a ZeroDivisionError, which
\* format_report_line raises at its first use when max_count is 0
generate_network_status_report(nodes, nodes_block_count) ==
    IF nodes_block_count = <<>>
    THEN [kind |-> "return", empty |-> TRUE, lines |-> <<>>]
    ELSE LET maxc == max_count(nodes_block_count)
             formats == \E i \in 1..Len(nodes) :
                            get_node_data(nodes_block_count, nodes[i]) # 0
         IN  IF maxc = 0 /\ formats
             THEN [kind |-> "raise", empty |-> FALSE, lines |-> <<>>]
             ELSE [kind |-> "return", empty |-> FALSE,
                   lines |-> [i \in 1..Len(nodes) |->
                       LET d == get_node_data(nodes_block_count, nodes[i])
                       IN  IF d # 0
                           THEN format_report_line(nodes_block_count[d], maxc)
                           ELSE down_line(nodes[i])]]

(***************************************************************************)
(* Commands, results and errors.  A command is the list of its words; a     *)
(* text (stderr, a message) is the list of its blank-separated pieces.      *)
(***************************************************************************)
\* Python's None, where a string stands
None == "None"

compose_yml_path == "nl_docker-compose.yml"
project_name == "nano_local"
nano_nodes_path == "nano_nodes"

NoError ==
    [type |-> None, msg |-> <<>>, cmd |-> <<>>, returncode |-> 0, stderr |-> <<>>]

CalledProcessError(returncode, cmd, stderr) ==
    [type |-> "CalledProcessError", msg |-> <<>>, cmd |-> cmd,
     returncode |-> returncode, stderr |-> stderr]

ValueError(msg) ==
    [type |-> "ValueError", msg |-> msg, cmd |-> <<>>, returncode |-> 0,
     stderr |-> <<>>]

\* 'NoneType' object has no attribute 'group'
AttributeError ==
    [type |-> "AttributeError", msg |-> <<"NoneType", "group">>, cmd |-> <<>>,
     returncode |-> 0, stderr |-> <<>>]

ZeroDivisionError ==
    [type |-> "ZeroDivisionError", msg |-> <<"division by zero">>, cmd |-> <<>>,
     returncode |-> 0, stderr |-> <<>>]

NoResult == [args |-> <<>>, returncode |-> -1, stdout |-> 0]

\* subprocess.CompletedProcess; stdout is kept as the number it prints
CompletedProcess(args, stdout) ==
    [args |-> args, returncode |-> 0, stdout |-> stdout]

\* the exit status of a failed process
ExitStatus == 1

(***************************************************************************)
(* The heal rules of auto_heal.                                             *)
(***************************************************************************)
address_in_use == "programming external connectivity on endpoint"
docker_in_use == "Error response from daemon: Conflict. The container name"

\* the piece "/name" in double quotes
Quoted ==
    [n \in Containers |->
        CASE n = "pr1"  -> "\"/pr1\""
          [] n = "pr2"  -> "\"/pr2\""
          [] n = "pr3"  -> "\"/pr3\""
          [] n = "xpr1" -> "\"/xpr1\""]

\* what a failed command may write to stderr
StderrSamples ==
    {<<"no such service">>,
     <<address_in_use, "pr1", "(a1b2c3):", "port is already allocated">>,
     <<address_in_use>>,
     <<docker_in_use, Quoted["pr2"], "is already in use">>,
     <<docker_in_use, "pr2">>,
     <<docker_in_use, Quoted["pr2"], address_in_use>>}

\* the match of \w+ at the start of a piece; "" when it starts otherwise
FirstWord(piece) ==
    CASE piece \in Containers -> piece
      [] piece = address_in_use -> "programming"
      [] piece = docker_in_use -> "Error"
      [] piece = "no such service" -> "no"
      [] piece = "port is already allocated" -> "port"
      [] piece = "is already in use" -> "is"
      [] OTHER -> ""

\* the match of "/([^"]+)" on a whole piece; "" when it is no quoted path
QuotedPath(piece) ==
    IF \E n \in Containers : Quoted[n] = piece
    THEN CHOOSE n \in Containers : Quoted[n] = piece
    ELSE ""

\* error_msg in stderr
Contains(stderr, error_msg) == \E i \in 1..Len(stderr) : stderr[i] = error_msg

\* re.search(pattern + " " + group, stderr): the group of the leftmost match,
\* "" when nothing matches; groups[i] is what the group matches at piece i
Search(stderr, error_msg, groups) ==
    LET hits == {i \in 1..(Len(stderr) - 1) :
                    stderr[i] = error_msg /\ groups[i + 1] # ""}
    IN  IF hits = {} THEN ""
        ELSE groups[(CHOOSE i \in hits : \A j \in hits : i <= j) + 1]

heal_address_in_use_cmd(container_name) ==
    <<"docker stop -t 0", container_name, "&& sleep 5 && docker start",
      container_name>>

heal_docker_in_use_cmd(container_name) ==
    <<"docker stop -t 0", container_name, "&& docker rm", container_name,
      "&& sleep 5">>

\* _heal_address_in_use up to the command it runs: .group(1) of no match
\* raises AttributeError
heal_address_in_use(error_msg, stderr) ==
    LET container_name == Search(stderr, error_msg,
                                 [i \in 1..Len(stderr) |-> FirstWord(stderr[i])])
    IN  IF container_name = ""
        THEN [do |-> "raise", exc |-> AttributeError, cmd |-> <<>>]
        ELSE [do |-> "run", exc |-> NoError,
              cmd |-> heal_address_in_use_cmd(container_name)]

\* _heal_docker_in_use up to the command it runs: False when nothing matches
heal_docker_in_use(error_msg, stderr) ==
    LET container_name == Search(stderr, error_msg,
                                 [i \in 1..Len(stderr) |-> QuotedPath(stderr[i])])
    IN  IF container_name = ""
        THEN [do |-> "false", exc |-> NoError, cmd |-> <<>>]
        ELSE [do |-> "run", exc |-> NoError,
              cmd |-> heal_docker_in_use_cmd(container_name)]

\* the loop of auto_heal over healable_errors, in the order of the dict, and
\* the raise that follows it: the remediation command of the first rule whose
\* heal function gets to run one, or what is raised
healable_errors(error) ==
    IF Contains(error.stderr, address_in_use)
    THEN heal_address_in_use(address_in_use, error.stderr)
    ELSE IF Contains(error.stderr, docker_in_use)
         THEN LET h == heal_docker_in_use(docker_in_use, error.stderr)
              IN  IF h.do = "false"
                  THEN [do |-> "raise", exc |-> ValueError(error.stderr),
                        cmd |-> <<>>]
                  ELSE h
    ELSE [do |-> "raise", exc |-> ValueError(error.stderr), cmd |-> <<>>]

\* a faulty auto_heal, its ceiling one retry late ("increment > 10")
auto_heal_late(error, increment) ==
    IF increment > MaxRetries
    THEN [do |-> "raise", exc |-> error, cmd |-> <<>>]
    ELSE healable_errors(error)

\* auto_heal up to the remediation it starts: what it raises, or the
\* remediation command that its heal function runs
auto_heal(error, increment) ==
    IF increment >= MaxRetries
    THEN [do |-> "raise", exc |-> error, cmd |-> <<>>]
    ELSE healable_errors(error)

\* one call of _subprocess_capture_raise: its arguments, the error it waits
\* on while its heal function runs, and how often it has run and healed
Frame(cmd, shell, cwd, increment) ==
    [cmd |-> cmd, shell |-> shell, cwd |-> cwd, increment |-> increment,
     error |-> NoError, heals |-> 0, issued |-> 0]

\* a faulty re-issue, which leaves shell and cwd to their defaults
reissue_defaults(frame) ==
    [frame EXCEPT !.cmd = frame.error.cmd,
                  !.shell = "True",
                  !.cwd = None,
                  !.increment = frame.increment + 1,
                  !.error = NoError]

\* auto_heal after its heal function returned True: the command of the
\* error is issued again, one retry further
reissue(frame) ==
    [frame EXCEPT !.cmd = frame.error.cmd,
                  !.increment = frame.increment + 1,
                  !.error = NoError]

\* the heal functions' self._subprocess_capture_raise(..., shell=True)
remediation(cmd) == Frame(cmd, "True", None, 0)

(***************************************************************************)
(* The commands the manager runs, and what they do to the docker host.      *)
(***************************************************************************)
Truthy(nodes) == nodes.some /\ nodes.val # <<>>
NoNodes == [some |-> FALSE, val |-> <<>>]
Nodes(s) == [some |-> TRUE, val |-> s]

\* _run_docker_compose_command
run_docker_compose_command(command, nodes) ==
    Frame(<<"docker-compose", "-f", compose_yml_path, "-p", project_name>>
              \o command \o (IF Truthy(nodes) THEN nodes.val ELSE <<>>),
          "False", None, 0)

online_containers_cmd(container) == <<"docker ps |grep", container, "$ | wc -l">>

reset_nodes_data_cmd == <<"rm -f $(find . -name \"*.ldb\")">>

IsSuffix(a, b) ==
    Len(a) <= Len(b) /\ SubSeq(b, Len(b) - Len(a) + 1, Len(b)) = a

\* "docker ps |grep name$ | wc -l": the lines of docker ps end with the
\* container's name
GrepCount(container, running) ==
    IF container \notin Containers THEN 0
    ELSE Cardinality({c \in running : IsSuffix(Chars[container], Chars[c])})

IsCompose(cmd) == Len(cmd) >= 6 /\ cmd[1] = "docker-compose"

\* the services a docker-compose command is about: the named ones, or all
ComposeTargets(cmd) ==
    LET named == {cmd[i] : i \in 7..Len(cmd)} \ {"-d"}
        sub   == IF cmd[6] = "up" THEN {cmd[i] : i \in 8..Len(cmd)} ELSE named
    IN  IF sub = {} THEN Range(ConfigNodes) ELSE sub \cap HostContainers

\* the containers that may run after cmd ended, successfully or not
Effect(cmd, running, ok) ==
    LET some(T) == IF ok THEN {T} ELSE SUBSET T
    IN  IF IsCompose(cmd)
        THEN LET T == ComposeTargets(cmd)
             IN  CASE cmd[6] \in {"up", "restart"} ->
                        {running \cup S : S \in some(T)}
                   [] cmd[6] \in {"stop", "down"} ->
                        {running \ S : S \in some(T)}
                   [] OTHER -> {running}
        ELSE IF cmd[1] = "docker stop -t 0"
        THEN LET c == {cmd[2]} \cap HostContainers
             IN  IF cmd[3] = "&& docker rm" THEN {running \ S : S \in some(c)}
                 ELSE IF ok THEN {running \cup c}
                 ELSE {running, running \ c}
        ELSE {running}

\* what a successful command prints, as far as the manager reads it
Stdout(cmd, running) ==
    IF cmd[1] = "docker ps |grep" THEN GrepCount(cmd[2], running) ELSE 0

\* "docker ps | grep | wc" ends with the status of wc: it does not fail
MayFail(cmd) == cmd[1] # "docker ps |grep"

(***************************************************************************)
(* The command dispatcher: _initialize_command_mapping, _filter_args.       *)
(***************************************************************************)
\* (command_method, validation_method)
command_mapping ==
    [c \in {"create", "start", "status", "restart", "reset", "init", "stop",
            "remove", "down", "destroy", "rpc"} |->
        CASE c = "create"  -> [func |-> "create_docker_compose_file", validator |-> None]
          [] c = "start"   -> [func |-> "start_containers", validator |-> None]
          [] c = "status"  -> [func |-> "network_status", validator |-> None]
          [] c = "restart" -> [func |-> "restart_containers", validator |-> None]
          [] c = "reset"   -> [func |-> "reset_nodes_data", validator |-> None]
          [] c = "init"    -> [func |-> "init_nodes", validator |-> None]
          [] c = "stop"    -> [func |-> "stop_containers", validator |-> None]
          [] c = "remove"  -> [func |-> "remove_containers", validator |-> None]
          [] c = "down"    -> [func |-> "remove_containers", validator |-> None]
          [] c = "destroy" -> [func |-> "destroy_remove_files", validator |-> None]
          [] c = "rpc"     -> [func |-> "run_rpc", validator |-> "_rpc_validator"]]

\* a faulty membership test, which lets every command through
always_registered(command) == TRUE

\* "command not in self.command_mapping" is false
registered(command) == command \in DOMAIN command_mapping

\* the parameter names the functions of the mapping are defined with
declared(func) ==
    CASE func \in {"start_containers", "restart_containers", "reset_nodes_data",
                  "stop_containers"} -> {"nodes"}
      [] func = "network_status" -> {"nodes_name"}
      [] func \in {"run_rpc", "_rpc_validator"} -> {"nodes", "payload"}
      [] OTHER -> {}

\* the functions defined under @log_on_success
Decorated ==
    {"create_docker_compose_file", "start_containers", "network_status",
     "restart_containers", "reset_nodes_data", "init_nodes", "stop_containers",
     "remove_containers", "run_rpc"}

\* the parameters the signature of a function under @log_on_success shows:
\* the decorator is taken to keep the parameters the action declares
log_on_success(func) == declared(func)

\* inspect.signature(func).parameters
Parameters(func) ==
    IF func \in Decorated THEN log_on_success(func) ELSE declared(func)

\* a faulty _filter_args, which hands every keyword argument on
pass_all_args(func, nodes, payload) ==
    [keys |-> {"nodes", "payload"}, nodes |-> nodes, payload |-> payload]

\* _filter_args(func, nodes=..., payload=...): the keyword arguments func
\* gets; a parameter that is not passed takes its default, None
filter_args(func, nodes, payload) ==
    LET keys == {"nodes", "payload"} \cap Parameters(func)
    IN  [keys    |-> keys,
         nodes   |-> IF "nodes" \in keys THEN nodes ELSE NoNodes,
         payload |-> IF "payload" \in keys THEN payload ELSE None]

\* a faulty "not payload", which takes None for a payload
only_empty(payload) == payload = ""

\* "not payload": None and the empty string
Falsy(payload) == payload \in {None, ""}

PayloadRequired ==
    ValueError(<<"The --payload argument is required for the 'rpc' command.">>)

\* _rpc_validator: what it raises, or the pair it returns
rpc_validator(kwargs) ==
    IF Falsy(kwargs.payload)
    THEN [raises |-> TRUE, exc |-> PayloadRequired, nodes |-> NoNodes,
          payload |-> None]
    ELSE [raises |-> FALSE, exc |-> NoError, nodes |-> kwargs.nodes,
          payload |-> kwargs.payload]

InvalidCommand(command) == ValueError(<<"Invalid command:", command>>)

\* self.command_mapping[command] of a command the mapping does not hold
KeyError(command) ==
    [type |-> "KeyError", msg |-> <<command>>, cmd |-> <<>>, returncode |-> 0,
     stderr |-> <<>>]

Timeout(nodes_to_check) ==
    ValueError(<<"TIMEOUT: RPCs not reachable for nodes">> \o nodes_to_check)

\* what a function returns
NoneValue == [tag |-> "None"]
Opaque(of) == [tag |-> "opaque", of |-> of]
Json(responses) == [tag |-> "json", responses |-> responses]

\* a faulty choice of the nodes to query, which takes an empty list for
\* no list ("if nodes_name")
nodes_rpc_if_any(nodes_name) ==
    IF Truthy(nodes_name) THEN nodes_name.val ELSE ConfigNodes

\* _get_nodes_block_counts: the nodes whose RPC is queried, those of
\* nodes_name unless it is None, and then those of _get_all_rpc
nodes_rpc(nodes_name) ==
    IF nodes_name.some THEN nodes_name.val ELSE ConfigNodes

\* online_containers_status
online_containers_status(online_containers, total_nodes) ==
    [all    |-> Len(online_containers) = total_nodes,
     online |-> Len(online_containers),
     total  |-> total_nodes]

StatusText(status_msg, report) ==
    [tag |-> "status", status_msg |-> status_msg, empty |-> report.empty,
     lines |-> report.lines]

\* f'{self.nano_nodes_path}/{node}'
NodePath(node) ==
    CASE node = "pr1" -> "nano_nodes/pr1"
      [] node = "pr2" -> "nano_nodes/pr2"
      [] node = "pr3" -> "nano_nodes/pr3"
      [] OTHER -> "nano_nodes/."

\* reset_nodes_data: the call that deletes the ledger files of one entry of
\* nodes_to_process; its second argument lands in `shell`
reset_nodes_data_call(nodes, node) ==
    Frame(reset_nodes_data_cmd,
          IF Truthy(nodes) THEN NodePath(node) ELSE nano_nodes_path,
          None, 0)

\* nodes or ['.']
nodes_to_process(nodes) == IF Truthy(nodes) THEN nodes.val ELSE <<".">>

\* the calls of execute_command that are tried
Payloads == {None, "", "{\"action\": \"block_count\"}"}
NodeArgs == {NoNodes, Nodes(<<>>), Nodes(<<"pr1">>), Nodes(<<"pr2", "pr1">>)}
Commands == DOMAIN command_mapping \cup {"update", "build"}
CallSamples ==
    {[command |-> c, nodes |-> n, payload |-> None] :
        c \in Commands, n \in NodeArgs}
    \cup {[command |-> c, nodes |-> n, payload |-> "{\"action\": \"block_count\"}"] :
        c \in {"rpc", "stop", "status", "update"}, n \in NodeArgs}
    \cup {[command |-> "rpc", nodes |-> Nodes(<<"pr1">>), payload |-> ""]}

VARIABLES
    pc,             \* where execute_command stands
    call,           \* its arguments: command, nodes, payload
    act,            \* the function it invoked and the keyword arguments
    result,         \* what that function returned
    outcome,        \* how execute_command ended
    fx,             \* what has happened so far: validator, action, proc
    rpcLog,         \* the RPC calls issued so far: <<node, method>>
    todo,           \* the rest of the list a loop of the function walks
    online,         \* _online_containers: online_containers so far
    poll,           \* _wait_for_rpc_availability
    script,         \* the calls still to dispatch, when they are prescribed
    trail,          \* the calls dispatched before this one, each with its end
    stack,          \* the calls of _subprocess_capture_raise in progress
    ret,            \* how the outermost of them ended; kind "none" before
    running,        \* the containers the docker host runs
    lastRun,        \* the last subprocess.run: its arguments, result, error
    origCall,       \* the arguments of the outermost _subprocess_capture_raise
    rep_nodes,      \* the declared node list handed to the report generator
    rep_metrics,    \* nodes_block_count
    rep_out         \* what the report generator gave; kind "none" before

call_vars == <<pc, call, act, result, outcome, todo, online, script, trail>>
exec_vars == <<stack, ret, running, lastRun, origCall>>
rep_vars == <<rep_nodes, rep_metrics, rep_out>>
vars ==
    <<pc, call, act, result, outcome, fx, rpcLog, todo, online, poll, script,
      trail, stack, ret, running, lastRun, origCall, rep_nodes, rep_metrics,
      rep_out>>

NoCall == [command |-> None, nodes |-> NoNodes, payload |-> None]
NoAct == [func |-> None, kwargs |-> filter_args(None, NoNodes, None)]
NoOutcome == [kind |-> "none", exc |-> NoError, value |-> NoneValue]
NoReport == [kind |-> "none", empty |-> FALSE, lines |-> <<>>]

NoRet ==
    [kind |-> "none", value |-> NoResult, exc |-> NoError,
     heals |-> 0, issued |-> 0]

NoRun ==
    [cmd |-> <<>>, shell |-> None, cwd |-> None, depth |-> 0,
     result |-> NoResult, error |-> NoError]

NoPoll ==
    [state |-> "off", nodes_name |-> <<>>, wait |-> TRUE,
     nodes_to_check |-> <<>>, probe |-> <<>>, clock |-> 0, rounds |-> 0,
     confirmed |-> {}, exc |-> NoError]

(***************************************************************************)
(* _subprocess_capture_raise and auto_heal                                  *)
(***************************************************************************)
Top == stack[Len(stack)]

\* the caller enters _subprocess_capture_raise
Call(frame) ==
    /\ stack' = <<frame>>
    /\ ret' = NoRet
    /\ origCall' = [cmd |-> frame.cmd, shell |-> frame.shell, cwd |-> frame.cwd]
    /\ UNCHANGED <<running, lastRun>>

\* subprocess.run ends with status 0: the result is returned, to the caller
\* or to the heal function that waits for it, which then has the command of
\* the failure issued again
RunSucceeds ==
    /\ stack # <<>>
    /\ LET f      == [Top EXCEPT !.issued = @ + 1]
           res    == CompletedProcess(f.cmd, Stdout(f.cmd, running))
       IN  /\ running' \in Effect(f.cmd, running, TRUE)
           /\ lastRun' = [cmd |-> f.cmd, shell |-> f.shell, cwd |-> f.cwd,
                          depth |-> Len(stack), result |-> res,
                          error |-> NoError]
           /\ IF Len(stack) = 1
              THEN /\ stack' = <<>>
                   /\ ret' = [kind |-> "return", value |-> res,
                              exc |-> NoError, heals |-> f.heals,
                              issued |-> f.issued]
              ELSE /\ stack' = SubSeq(stack, 1, Len(stack) - 2)
                                   \o <<reissue(stack[Len(stack) - 1])>>
                   /\ ret' = ret
    /\ fx' = fx \cup {"proc"}
    /\ UNCHANGED <<origCall, call_vars, rpcLog, poll, rep_vars>>

\* subprocess.run ends with another status: auto_heal raises, which ends
\* every call in progress, or starts the remediation of the matching rule
RunFails(stderr) ==
    /\ stack # <<>>
    /\ MayFail(Top.cmd)
    /\ LET f     == [Top EXCEPT !.issued = @ + 1]
           error == CalledProcessError(ExitStatus, f.cmd, stderr)
           heal  == auto_heal(error, f.increment)
       IN  /\ heal.do = "run" => Len(stack) < MaxDepth
           /\ running' \in Effect(f.cmd, running, FALSE)
           /\ lastRun' = [cmd |-> f.cmd, shell |-> f.shell, cwd |-> f.cwd,
                          depth |-> Len(stack), result |-> NoResult,
                          error |-> error]
           /\ IF heal.do = "raise"
              THEN /\ stack' = <<>>
                   /\ ret' = [kind |-> "raise", value |-> NoResult,
                              exc |-> heal.exc, heals |-> f.heals,
                              issued |-> f.issued]
              ELSE /\ stack' = SubSeq(stack, 1, Len(stack) - 1)
                                   \o <<[f EXCEPT !.error = error,
                                                  !.heals = @ + 1],
                                        remediation(heal.cmd)>>
                   /\ ret' = ret
    /\ fx' = fx \cup {"proc"}
    /\ UNCHANGED <<origCall, call_vars, rpcLog, poll, rep_vars>>

(***************************************************************************)
(* execute_command and the functions it invokes                             *)
(***************************************************************************)
Returned == stack = <<>> /\ ret.kind = "return"

\* execute_command ends: it has no return statement, so it returns None
Return(res) ==
    /\ pc' = "done"
    /\ result' = res
    /\ outcome' = [kind |-> "return", exc |-> NoError, value |-> NoneValue]

\* an exception leaves execute_command: no function has returned to it
Raise(exc) ==
    /\ pc' = "done"
    /\ result' = NoneValue
    /\ outcome' = [kind |-> "raise", exc |-> exc, value |-> NoneValue]

\* _wait_for_rpc_availability is entered: start_time = time.time()
EnterPoll(nodes, wait) ==
    LET nodes_name == IF Truthy(nodes) THEN nodes.val ELSE ConfigNodes
    IN  poll' = [NoPoll EXCEPT !.state = "loop", !.nodes_name = nodes_name,
                               !.wait = wait, !.nodes_to_check = nodes_name]

\* the function of the command is entered with its keyword arguments
Enter(func, kwargs) ==
    /\ act' = [func |-> func, kwargs |-> kwargs]
    /\ CASE func = "start_containers" ->
              /\ Call(run_docker_compose_command(<<"up", "-d">>, kwargs.nodes))
              /\ pc' = "start_up"
              /\ UNCHANGED <<result, outcome, rpcLog, todo, online, rep_vars>>
         [] func = "stop_containers" ->
              /\ Call(run_docker_compose_command(<<"stop">>, kwargs.nodes))
              /\ pc' = "stop"
              /\ UNCHANGED <<result, outcome, rpcLog, todo, online, rep_vars>>
         [] func = "restart_containers" ->
              /\ Call(run_docker_compose_command(<<"restart">>, kwargs.nodes))
              /\ pc' = "restart"
              /\ UNCHANGED <<result, outcome, rpcLog, todo, online, rep_vars>>
         [] func = "remove_containers" ->
              /\ Call(run_docker_compose_command(<<"down">>, NoNodes))
              /\ pc' = "down"
              /\ UNCHANGED <<result, outcome, rpcLog, todo, online, rep_vars>>
         [] func = "destroy_remove_files" ->
              /\ Call(run_docker_compose_command(<<"down">>, NoNodes))
              /\ pc' = "destroy_down"
              /\ UNCHANGED <<result, outcome, rpcLog, todo, online, rep_vars>>
         [] func = "reset_nodes_data" ->
              /\ Call(run_docker_compose_command(<<"stop">>, kwargs.nodes))
              /\ pc' = "reset_stop"
              /\ todo' = nodes_to_process(kwargs.nodes)
              /\ UNCHANGED <<result, outcome, rpcLog, online, rep_vars>>
         [] func = "network_status" ->
              \* nodes_name is None here, never []: the dispatcher passes
              \* no nodes_name
              /\ Call(Frame(online_containers_cmd(Head(ConfigNodes)), "True",
                            None, 0))
              /\ pc' = "status_online"
              /\ todo' = Tail(ConfigNodes)
              /\ online' = <<>>
              /\ rep_nodes' = ConfigNodes
              /\ UNCHANGED <<result, outcome, rpcLog, rep_metrics, rep_out>>
         [] func = "run_rpc" ->
              LET nodes == IF kwargs.nodes.some THEN kwargs.nodes.val
                           ELSE ConfigNodes
              IN  /\ rpcLog' = rpcLog \cup
                        {<<nodes[i], "post_with_auth">> : i \in 1..Len(nodes)}
                  /\ Return(Json([i \in 1..Len(nodes) |->
                                     <<nodes[i], kwargs.payload>>]))
                  /\ UNCHANGED <<exec_vars, todo, online, rep_vars>>
         [] func = "create_docker_compose_file" ->
              /\ Return(Opaque("get_enabled_services"))
              /\ UNCHANGED <<exec_vars, rpcLog, todo, online, rep_vars>>
         [] func = "init_nodes" ->
              /\ Return(Opaque("publish_initial_blocks"))
              /\ UNCHANGED <<exec_vars, rpcLog, todo, online, rep_vars>>

\* execute_command up to the first external command of the function
execute_command(c) ==
    /\ call' = c
    /\ poll' = NoPoll
    /\ IF ~registered(c.command)
       THEN /\ Raise(InvalidCommand(c.command))
            /\ UNCHANGED <<act, fx, rpcLog, todo, online, exec_vars, rep_vars>>
       ELSE IF c.command \notin DOMAIN command_mapping
       THEN /\ Raise(KeyError(c.command))
            /\ UNCHANGED <<act, fx, rpcLog, todo, online, exec_vars, rep_vars>>
       ELSE LET entry == command_mapping[c.command]
                v == IF entry.validator = None
                     THEN [raises |-> FALSE, exc |-> NoError,
                           nodes |-> c.nodes, payload |-> c.payload]
                     ELSE rpc_validator(
                              filter_args(entry.validator, c.nodes, c.payload))
            IN  IF v.raises
                THEN /\ Raise(v.exc)
                     /\ fx' = fx \cup {"validator"}
                     /\ UNCHANGED <<act, rpcLog, todo, online, exec_vars,
                                    rep_vars>>
                ELSE /\ fx' = fx \cup {"action"}
                            \cup (IF entry.validator = None THEN {}
                                  ELSE {"validator"})
                     /\ Enter(entry.func,
                              filter_args(entry.func, v.nodes, v.payload))

\* the caller calls execute_command once, with any arguments
Dispatch ==
    \E c \in CallSamples :
        /\ pc = "idle" /\ script = <<>>
        /\ execute_command(c)
        /\ UNCHANGED <<script, trail>>

\* the caller makes the calls of a script, each after the one before it
\* ended, whether that one returned or raised
DispatchScript ==
    /\ pc \in {"idle", "done"} /\ script # <<>>
    /\ execute_command(Head(script))
    /\ script' = Tail(script)
    /\ trail' = IF pc = "done"
                THEN Append(trail, [call |-> call, outcome |-> outcome])
                ELSE trail

Waiting == {"start_up", "stop", "restart", "down", "destroy_down",
            "reset_stop", "reset_rm", "status_online"}

\* an external command of the function ended in an error: it is not caught
ExecRaises ==
    /\ pc \in Waiting
    /\ stack = <<>> /\ ret.kind = "raise"
    /\ Raise(ret.exc)
    /\ UNCHANGED <<call, act, fx, rpcLog, todo, online, poll, script, trail,
                   exec_vars, rep_vars>>

\* stop_containers, restart_containers, remove_containers return
CommandReturns ==
    /\ pc \in {"stop", "restart", "down"}
    /\ Returned
    /\ Return(NoneValue)
    /\ UNCHANGED <<call, act, fx, rpcLog, todo, online, poll, script, trail,
                   exec_vars, rep_vars>>

\* destroy: return shutil_rmtree(self.nano_nodes_path)
DestroyRemovesFiles ==
    /\ pc = "destroy_down"
    /\ Returned
    /\ Return(Opaque("shutil_rmtree"))
    /\ UNCHANGED <<call, act, fx, rpcLog, todo, online, poll, script, trail,
                   exec_vars, rep_vars>>

\* reset_nodes_data: the next entry of nodes_to_process, or the end
ResetNext ==
    /\ pc \in {"reset_stop", "reset_rm"}
    /\ Returned
    /\ IF todo = <<>>
       THEN /\ Return(NoneValue)
            /\ UNCHANGED <<todo, exec_vars>>
       ELSE /\ Call(reset_nodes_data_call(act.kwargs.nodes, Head(todo)))
            /\ todo' = Tail(todo)
            /\ pc' = "reset_rm"
            /\ UNCHANGED <<result, outcome>>
    /\ UNCHANGED <<call, act, fx, rpcLog, online, poll, script, trail, rep_vars>>

\* start_containers: self._wait_for_rpc_availability(nodes)
StartWaits ==
    /\ pc = "start_up"
    /\ Returned
    /\ pc' = "start_wait"
    /\ EnterPoll(act.kwargs.nodes, TRUE)
    /\ UNCHANGED <<call, act, result, outcome, fx, rpcLog, todo, online,
                   script, trail, exec_vars, rep_vars>>

\* start_containers ends as _wait_for_rpc_availability does
StartEnds ==
    /\ pc = "start_wait"
    /\ poll.state \in {"returned", "raised"}
    /\ IF poll.state = "raised" THEN Raise(poll.exc) ELSE Return(NoneValue)
    /\ UNCHANGED <<call, act, fx, rpcLog, todo, online, poll, script, trail,
                   exec_vars, rep_vars>>

\* _online_containers: one container's "docker ps" has answered
StatusOnline ==
    /\ pc = "status_online"
    /\ Returned
    /\ online' = IF ret.value.stdout = 1
                 THEN Append(online, ret.value.args[2]) ELSE online
    /\ IF todo = <<>>
       THEN /\ pc' = "status_rpc"
            /\ UNCHANGED <<todo, exec_vars>>
       ELSE /\ Call(Frame(online_containers_cmd(Head(todo)), "True", None, 0))
            /\ todo' = Tail(todo)
            /\ pc' = pc
    /\ UNCHANGED <<call, act, result, outcome, fx, rpcLog, poll, script, trail,
                   rep_vars>>

\* network_status from _get_nodes_block_counts on: block_count and version
\* of every online container, then the report
StatusReport ==
    /\ pc = "status_rpc"
    /\ \E ms \in [1..Len(nodes_rpc(Nodes(online))) -> MetricSamples] :
          LET queried == nodes_rpc(Nodes(online))
              nodes_block_count ==
                  [i \in 1..Len(queried) |-> Metrics(queried[i], ms[i])]
              report == generate_network_status_report(rep_nodes,
                                                       nodes_block_count)
              status_msg == online_containers_status(online, Len(rep_nodes))
          IN  /\ rep_metrics' = nodes_block_count
              /\ rep_out' = report
              /\ rpcLog' = rpcLog \cup
                    {<<queried[i], m>> : i \in 1..Len(queried),
                                         m \in {"block_count", "version"}}
              /\ IF report.kind = "raise" THEN Raise(ZeroDivisionError)
                 ELSE Return(StatusText(status_msg, report))
    /\ UNCHANGED <<call, act, fx, todo, online, poll, script, trail, exec_vars,
                   rep_nodes>>

(***************************************************************************)
(* _wait_for_rpc_availability                                               *)
(***************************************************************************)
\* a faulty loop head, which breaks only after the round
probes_before_break(nodes_to_check, wait) == Len(nodes_to_check) > 0

\* the while condition and "if not wait: break": whether a round follows
enters_round(nodes_to_check, wait) == Len(nodes_to_check) > 0 /\ wait

\* the head of the loop; get_unavailable_nodes hands one probe per node of
\* nodes_to_check to the thread pool
PollLoop ==
    /\ poll.state = "loop"
    /\ IF enters_round(poll.nodes_to_check, poll.wait)
       THEN poll' = [poll EXCEPT
                !.state = "round",
                !.rounds = @ + 1,
                !.probe = [i \in 1..Len(poll.nodes_to_check) |-> "queued"]]
       ELSE poll' = [poll EXCEPT !.state = "returned"]
    /\ UNCHANGED <<call_vars, fx, rpcLog, exec_vars, rep_vars>>

\* a thread of the pool enters _is_rpc_available: block_count(max_retry=0)
ProbeStarts(i) ==
    /\ poll.state = "round"
    /\ i \in 1..Len(poll.probe)
    /\ poll.probe[i] = "queued"
    /\ poll' = [poll EXCEPT !.probe[i] = "running"]
    /\ rpcLog' = rpcLog \cup {<<poll.nodes_to_check[i], "block_count">>}
    /\ UNCHANGED <<call_vars, fx, exec_vars, rep_vars>>

\* _is_rpc_available returns: True when block_count answered, False when it
\* raised or answered nothing
ProbeEnds(i, available) ==
    /\ poll.state = "round"
    /\ i \in 1..Len(poll.probe)
    /\ poll.probe[i] = "running"
    /\ poll' = [poll EXCEPT
            !.probe[i] = IF available THEN "up" ELSE "down",
            !.confirmed = IF available THEN @ \cup {poll.nodes_to_check[i]}
                          ELSE @]
    /\ UNCHANGED <<call_vars, fx, rpcLog, exec_vars, rep_vars>>

\* the clock of time.time(), in seconds since start_time; past the deadline
\* it need not be told apart
ClockCap == max_timeout_s + 1
Later(clock) == IF clock < ClockCap THEN clock + 1 ELSE clock

\* time passes while the probes of a round run
Tick ==
    /\ poll.state = "round"
    /\ poll.clock < ClockCap
    /\ poll' = [poll EXCEPT !.clock = Later(@)]
    /\ UNCHANGED <<call_vars, fx, rpcLog, exec_vars, rep_vars>>

\* a faulty get_unavailable_nodes, which hands back every node it was given
all_nodes_again(nodes, probe) == nodes

\* a faulty get_unavailable_nodes, its test inverted ("if available")
available_nodes(nodes, probe) ==
    LET F[i \in 0..Len(nodes)] ==
            IF i = 0 THEN <<>>
            ELSE IF probe[i] = "up" THEN Append(F[i - 1], nodes[i])
            ELSE F[i - 1]
    IN  F[Len(nodes)]

\* the nodes of a round that answered False, in the order of the round
unavailable(nodes, probe) ==
    LET F[i \in 0..Len(nodes)] ==
            IF i = 0 THEN <<>>
            ELSE IF probe[i] = "down" THEN Append(F[i - 1], nodes[i])
            ELSE F[i - 1]
    IN  F[Len(nodes)]

\* a faulty deadline test, which never fires
deadline_ignored(clock) == FALSE

\* the deadline test after a round
timed_out(clock) == clock > max_timeout_s

\* every probe of the round has returned: the rest of the loop body
RoundEnds ==
    /\ poll.state = "round"
    /\ \A i \in 1..Len(poll.probe) : poll.probe[i] \in {"up", "down"}
    /\ LET left == unavailable(poll.nodes_to_check, poll.probe)
       IN  IF timed_out(poll.clock)
           THEN poll' = [poll EXCEPT !.state = "raised",
                                     !.nodes_to_check = left,
                                     !.probe = <<>>,
                                     !.exc = Timeout(left)]
           ELSE poll' = [poll EXCEPT
                    !.state = "loop",
                    !.nodes_to_check = left,
                    !.probe = <<>>,
                    \* time.sleep(1)
                    !.clock = IF Len(left) > 0 THEN Later(@) ELSE @]
    /\ UNCHANGED <<call_vars, fx, rpcLog, exec_vars, rep_vars>>

(***************************************************************************)
(* The specifications.                                                      *)
(***************************************************************************)
InitCommon ==
    /\ call = NoCall /\ act = NoAct /\ result = NoneValue
    /\ outcome = NoOutcome /\ fx = {} /\ rpcLog = {}
    /\ todo = <<>> /\ online = <<>> /\ trail = <<>>
    /\ ret = NoRet /\ lastRun = NoRun
    /\ rep_out = NoReport

\* one call of execute_command, whatever the docker host runs
Init ==
    /\ InitCommon
    /\ pc = "idle" /\ script = <<>> /\ poll = NoPoll
    /\ stack = <<>>
    /\ origCall = [cmd |-> <<>>, shell |-> None, cwd |-> None]
    /\ running \in SUBSET HostContainers
    /\ rep_nodes = <<>> /\ rep_metrics = <<>>

Next ==
    \/ Dispatch
    \/ RunSucceeds
    \/ \E stderr \in StderrSamples : RunFails(stderr)
    \/ ExecRaises
    \/ CommandReturns
    \/ DestroyRemovesFiles
    \/ ResetNext
    \/ StartWaits
    \/ StartEnds
    \/ StatusOnline
    \/ StatusReport
    \/ PollLoop
    \/ \E i \in 1..Len(ConfigNodes) : ProbeStarts(i)
    \/ \E i \in 1..Len(ConfigNodes), available \in BOOLEAN : ProbeEnds(i, available)
    \/ Tick
    \/ RoundEnds

Spec == Init /\ [][Next]_vars

\* start, then stop of the same nodes, then the presence check of status
RoundTrips ==
    {<<[command |-> "start", nodes |-> n, payload |-> None],
       [command |-> "stop", nodes |-> n, payload |-> None],
       [command |-> "status", nodes |-> NoNodes, payload |-> None]>> :
        n \in NodeArgs}

InitRoundTrip ==
    /\ InitCommon
    /\ pc = "idle" /\ script \in RoundTrips /\ poll = NoPoll
    /\ stack = <<>>
    /\ origCall = [cmd |-> <<>>, shell |-> None, cwd |-> None]
    /\ running \in SUBSET HostContainers
    /\ rep_nodes = <<>> /\ rep_metrics = <<>>

NextRoundTrip ==
    \/ DispatchScript
    \/ RunSucceeds
    \/ \E stderr \in StderrSamples : RunFails(stderr)
    \/ ExecRaises
    \/ CommandReturns
    \/ StartWaits
    \/ StartEnds
    \/ StatusOnline
    \/ StatusReport
    \/ PollLoop
    \/ \E i \in 1..Len(ConfigNodes) : ProbeStarts(i)
    \/ \E i \in 1..Len(ConfigNodes), available \in BOOLEAN : ProbeEnds(i, available)
    \/ Tick
    \/ RoundEnds

SpecRoundTrip == InitRoundTrip /\ [][NextRoundTrip]_vars

\* the calls of _subprocess_capture_raise the manager makes
ExecSamples ==
    {run_docker_compose_command(<<"up", "-d">>, Nodes(<<"pr1">>)),
     run_docker_compose_command(<<"stop">>, NoNodes),
     reset_nodes_data_call(Nodes(<<"pr1">>), "pr1")}

\* one call of _subprocess_capture_raise
InitExec ==
    /\ InitCommon
    /\ pc = "exec" /\ script = <<>> /\ poll = NoPoll
    /\ \E f \in ExecSamples :
          /\ stack = <<f>>
          /\ origCall = [cmd |-> f.cmd, shell |-> f.shell, cwd |-> f.cwd]
    /\ running \in SUBSET HostContainers
    /\ rep_nodes = <<>> /\ rep_metrics = <<>>

NextExec ==
    \/ RunSucceeds
    \/ \E stderr \in StderrSamples : RunFails(stderr)

SpecExec == InitExec /\ [][NextExec]_vars

\* subprocess.run fails and a remediation starts when MaxDepth calls are in
\* progress already: the outermost of them is no longer kept.  Only the
\* MaxDepth innermost calls are known from then on, and the return of the
\* outermost known call counts as the end of the whole call.
RunFailsDeep(stderr) ==
    /\ Len(stack) = MaxDepth
    /\ MayFail(Top.cmd)
    /\ LET f     == [Top EXCEPT !.issued = @ + 1]
           error == CalledProcessError(ExitStatus, f.cmd, stderr)
           heal  == auto_heal(error, f.increment)
       IN  /\ heal.do = "run"
           /\ running' \in Effect(f.cmd, running, FALSE)
           /\ lastRun' = [cmd |-> f.cmd, shell |-> f.shell, cwd |-> f.cwd,
                          depth |-> Len(stack), result |-> NoResult,
                          error |-> error]
           /\ stack' = SubSeq(stack, 2, Len(stack) - 1)
                            \o <<[f EXCEPT !.error = error, !.heals = @ + 1],
                                 remediation(heal.cmd)>>
    /\ fx' = fx \cup {"proc"}
    /\ UNCHANGED <<ret, origCall, call_vars, rpcLog, poll, rep_vars>>

\* one call of _subprocess_capture_raise, its remediations nested to any
\* depth; every process that is started ends
NextNest ==
    \/ RunSucceeds
    \/ \E stderr \in StderrSamples : RunFails(stderr)
    \/ \E stderr \in StderrSamples : RunFailsDeep(stderr)

SpecNest == InitExec /\ [][NextNest]_vars /\ WF_vars(NextNest)

\* one call of _wait_for_rpc_availability
InitPoll ==
    /\ InitCommon
    /\ pc = "poll" /\ script = <<>>
    /\ \E nodes \in NodeArgs, wait \in BOOLEAN :
          poll = [NoPoll EXCEPT
                    !.state = "loop",
                    !.wait = wait,
                    !.nodes_name = IF Truthy(nodes) THEN nodes.val
                                   ELSE ConfigNodes,
                    !.nodes_to_check = IF Truthy(nodes) THEN nodes.val
                                       ELSE ConfigNodes]
    /\ stack = <<>>
    /\ origCall = [cmd |-> <<>>, shell |-> None, cwd |-> None]
    /\ running = {}
    /\ rep_nodes = <<>> /\ rep_metrics = <<>>

NextPoll ==
    \/ PollLoop
    \/ \E i \in 1..Len(ConfigNodes) : ProbeStarts(i)
    \/ \E i \in 1..Len(ConfigNodes), available \in BOOLEAN : ProbeEnds(i, available)
    \/ Tick
    \/ RoundEnds

SpecPoll == InitPoll /\ [][NextPoll]_vars

\* the thread pool runs every probe it was handed
PoolRuns == \E i \in 1..Len(ConfigNodes) : ProbeStarts(i)

\* every probe returns: requests gives up after its timeout
ProbeReturns ==
    \E i \in 1..Len(ConfigNodes), available \in BOOLEAN : ProbeEnds(i, available)

\* one call of _wait_for_rpc_availability in which the pool runs its probes,
\* every probe returns and the calling thread goes on; the clock advances
\* with each time.sleep(1) of RoundEnds
SpecPollFair ==
    /\ InitPoll /\ [][NextPoll]_vars
    /\ WF_vars(PollLoop) /\ WF_vars(PoolRuns)
    /\ WF_vars(ProbeReturns) /\ WF_vars(RoundEnds)

\* the report generator on its own
MetricLists ==
    UNION {{[i \in 1..Len(names) |-> Metrics(names[i], ms[i])] :
                ms \in [1..Len(names) -> MetricSamples]} :
           names \in SeqsNoDup(NodeNames, 0, Cardinality(NodeNames))}

InitReport ==
    /\ InitCommon
    /\ pc = "report" /\ script = <<>> /\ poll = NoPoll
    /\ stack = <<>>
    /\ origCall = [cmd |-> <<>>, shell |-> None, cwd |-> None]
    /\ running = {}
    /\ rep_nodes \in SeqsNoDup(NodeNames, 0, Cardinality(NodeNames))
    /\ rep_metrics \in MetricLists

GenerateReport ==
    /\ pc = "report"
    /\ rep_out.kind = "none"
    /\ rep_out' = generate_network_status_report(rep_nodes, rep_metrics)
    /\ UNCHANGED <<call_vars, fx, rpcLog, poll, exec_vars, rep_nodes,
                   rep_metrics>>

NextReport == GenerateReport

SpecReport == InitReport /\ [][NextReport]_vars

(***************************************************************************)
(* The claims.                                                              *)
(***************************************************************************)
\* C1: a command that is not registered makes execute_command raise the
\* invalid-command error with no side effect: no validator and no action is
\* invoked, no process is spawned, no RPC call is issued.
C1_InvalidCommandNoSideEffect ==
    (pc = "done" /\ call.command \notin DOMAIN command_mapping) =>
        /\ outcome = [kind |-> "raise", exc |-> InvalidCommand(call.command),
                      value |-> NoneValue]
        /\ fx = {} /\ rpcLog = {}
        /\ act = NoAct /\ stack = <<>> /\ lastRun = NoRun

\* C1: the command "update" was dispatched with nodes and has ended in an error
C1_UnregisteredDispatched ==
    /\ pc = "done" /\ call.command = "update"
    /\ call.nodes = Nodes(<<"pr1">>)
    /\ outcome.kind = "raise"

\* C2: rpc with payload None, whatever nodes is, ends in the validation error
\* of the validator; run_rpc is not invoked and no RPC call is issued.
C2_RpcWithoutPayloadRaisesFirst ==
    (call.command = "rpc" /\ call.payload = None) =>
        /\ pc = "done"
        /\ outcome = [kind |-> "raise", exc |-> PayloadRequired,
                      value |-> NoneValue]
        /\ fx = {"validator"} /\ rpcLog = {}
        /\ act = NoAct

\* C2: rpc was dispatched with nodes and payload None, and has ended
C2_RpcWithoutPayloadDispatched ==
    /\ pc = "done" /\ call.command = "rpc" /\ call.payload = None
    /\ call.nodes = Nodes(<<"pr2", "pr1">>)
    /\ outcome.kind = "raise"

\* C3: the retry counter of a call never exceeds 10 and a call heals at most
\* 10 times; when the command fails for the 11th time, nothing is healed and
\* the CalledProcessError of that failure is raised as it is.
C3_RetryCeiling ==
    /\ \A i \in 1..Len(stack) :
          stack[i].increment <= MaxRetries /\ stack[i].heals <= MaxRetries
    /\ ret.heals <= MaxRetries
    /\ (ret.kind = "raise" /\ lastRun.depth = 1 /\ ret.issued = MaxRetries + 1) =>
          /\ ret.heals = MaxRetries
          /\ ret.exc = lastRun.error
          /\ ret.exc = CalledProcessError(ExitStatus, origCall.cmd,
                                          lastRun.error.stderr)

\* C3: the command has failed 11 times with a healable stderr, after 10 heals
C3_EleventhFailure ==
    /\ ret.kind = "raise" /\ lastRun.depth = 1
    /\ ret.issued = MaxRetries + 1 /\ ret.heals = MaxRetries
    /\ Contains(lastRun.error.stderr, docker_in_use)

\* C4: when the command fails and its stderr holds no heal pattern, what
\* reaches the caller is the failure of the process itself, unmodified.
C4_UnmatchedFailureUnmodified ==
    (/\ ret.kind = "raise" /\ lastRun.depth = 1
     /\ ~Contains(lastRun.error.stderr, address_in_use)
     /\ ~Contains(lastRun.error.stderr, docker_in_use)) =>
        ret.exc = lastRun.error

\* C4: the first run of the command failed with "no such service" and a
\* ValueError reached the caller
C4_ValueErrorInstead ==
    /\ ret.kind = "raise" /\ lastRun.depth = 1 /\ ret.issued = 1
    /\ lastRun.error.stderr = <<"no such service">>
    /\ ret.exc = ValueError(<<"no such service">>)

\* C5, as the spec states it: polling with wait = false returns after exactly
\* one round, with one probe for each targeted node.
C5_ExactlyOneRound ==
    (~poll.wait /\ poll.state = "returned") =>
        /\ poll.rounds = 1
        /\ \A n \in Range(poll.nodes_name) : <<n, "block_count">> \in rpcLog

\* C5, amended: polling with wait = false performs no round and no probe, and
\* raises nothing: it leaves the loop at its head with every targeted node
\* still to check.
C5_NoRoundWithoutWait ==
    ~poll.wait =>
        /\ poll.rounds = 0 /\ rpcLog = {}
        /\ poll.state \in {"loop", "returned"}
        /\ poll.exc = NoError
        /\ poll.nodes_to_check = poll.nodes_name

\* C5: polling of two nodes with wait = false has returned
C5_ReturnedWithoutWait ==
    /\ ~poll.wait /\ poll.state = "returned"
    /\ poll.nodes_name = <<"pr2", "pr1">>

\* C6: with metrics of at least one node, the report has one line for each
\* declared node, in the declared order: the sync line of a node with metrics,
\* the "[down]" line of a node without.
C6_OneLinePerDeclaredNode ==
    (rep_out.kind # "none" /\ rep_metrics # <<>>) =>
        /\ rep_out.kind = "return"
        /\ Len(rep_out.lines) = Len(rep_nodes)
        /\ \A i \in 1..Len(rep_out.lines) :
              /\ rep_out.lines[i].node_name = rep_nodes[i]
              /\ rep_out.lines[i].kind = "synced" <=>
                     \E j \in 1..Len(rep_metrics) :
                         rep_metrics[j].node_name = rep_nodes[i]

\* C6: no report for a declared node with metrics, when every count is 0
C6_NoReportAtAll ==
    /\ rep_out.kind = "raise"
    /\ rep_nodes = <<"pr1", "pr2">>
    /\ Len(rep_metrics) = 1 /\ rep_metrics[1].node_name = "pr2"

\* C7: the percentage of a sync line is floor(cemented * 10000 / maxCount)
\* hundredths, maxCount being the greatest count of the collected metrics.
C7_SyncedPercentage ==
    rep_out.kind = "return" =>
        \A i \in 1..Len(rep_out.lines) :
            rep_out.lines[i].kind = "synced" =>
                rep_out.lines[i].pct =
                    (rep_out.lines[i].cemented * 10000)
                        \div max_count(rep_metrics)

\* C7: cemented = 57 of maxCount = 100 is reported as 56.99
C7_OneHundredthShort ==
    /\ rep_out.kind = "return"
    /\ \E i \in 1..Len(rep_out.lines) :
          /\ rep_out.lines[i].kind = "synced"
          /\ rep_out.lines[i].cemented = 57
          /\ max_count(rep_metrics) = 100
          /\ rep_out.lines[i].pct = 5699

\* the nodes a start or stop with these nodes is about
Targeted(nodes) ==
    IF Truthy(nodes) THEN Range(nodes.val) ELSE Range(ConfigNodes)

\* the presence check of a status that followed a start and a stop, which
\* both returned, has been made
RoundTripChecked ==
    /\ script = <<>> /\ call.command = "status"
    /\ pc \in {"status_rpc", "done"}
    /\ Len(trail) = 2
    /\ trail[1].call.command = "start" /\ trail[1].outcome.kind = "return"
    /\ trail[2].call.command = "stop" /\ trail[2].outcome.kind = "return"
    /\ trail[2].call.nodes = trail[1].call.nodes

\* C8: after start and then stop of the same nodes, the presence check
\* reports none of these nodes online.
C8_RoundTripLeavesNoneOnline ==
    RoundTripChecked =>
        \A n \in Targeted(trail[1].call.nodes) : n \notin Range(online)

\* C8: pr1 was started and stopped, it does not run, and it is reported online
C8_StoppedNodeReportedOnline ==
    /\ RoundTripChecked
    /\ trail[1].call.nodes = Nodes(<<"pr1">>)
    /\ "pr1" \notin running
    /\ "pr1" \in Range(online)

\* the four terminal errors: InvalidCommand, ValidationError and
\* ReachabilityTimeout are ValueErrors, an ExecutionFailure is the
\* CalledProcessError or the ValueError that carries its stderr
TerminalError(exc) == exc.type \in {"ValueError", "CalledProcessError"}

\* C9: execute_command ends by returning what the function of the command
\* returned, or by raising one of the four terminal errors.
C9_ResultOrTerminalError ==
    pc = "done" =>
        \/ outcome.kind = "return" /\ outcome.value = result
        \/ outcome.kind = "raise" /\ TerminalError(outcome.exc)

\* C9: start has ended in an AttributeError
C9_AttributeErrorEscapes ==
    /\ pc = "done" /\ call.command = "start"
    /\ outcome.kind = "raise" /\ outcome.exc = AttributeError

\* C10: a command that failed k times (1 <= k <= 10) with a healable stderr,
\* was healed each time, and then succeeds: its result is returned, no error
\* surfaces, and every issue of it has the command, shell and cwd of the call.
C10_HealedRunReturns ==
    /\ stack # <<>> =>
          /\ stack[1].cmd = origCall.cmd
          /\ stack[1].shell = origCall.shell
          /\ stack[1].cwd = origCall.cwd
    /\ (ret.kind = "return" /\ ret.heals >= 1) =>
          /\ ret.heals <= MaxRetries /\ ret.issued = ret.heals + 1
          /\ ret.exc = NoError
          /\ ret.value = lastRun.result /\ ret.value.returncode = 0
          /\ lastRun.depth = 1
          /\ lastRun.cmd = origCall.cmd
          /\ lastRun.shell = origCall.shell
          /\ lastRun.cwd = origCall.cwd

\* C10: a docker-compose command has returned after 10 heals
C10_ReturnedAfterTenHeals ==
    /\ ret.kind = "return" /\ ret.heals = MaxRetries
    /\ origCall.shell = "False"
    /\ ret.value.args = origCall.cmd

\* C11: the action of a registered command is invoked with exactly those of
\* nodes and payload that it declares, carrying the caller's values (which the
\* validator of rpc returns as they are): nodes alone for start, stop, restart
\* and reset, both for rpc, neither for the other commands.
C11_ActionGetsDeclaredArgs ==
    act # NoAct =>
        LET expected ==
                CASE call.command \in {"start", "stop", "restart", "reset"} ->
                         {"nodes"}
                  [] call.command = "rpc" -> {"nodes", "payload"}
                  [] OTHER -> {}
        IN  /\ act.func = command_mapping[call.command].func
            /\ act.kwargs.keys = expected
            /\ act.kwargs.nodes =
                   IF "nodes" \in expected THEN call.nodes ELSE NoNodes
            /\ act.kwargs.payload =
                   IF "payload" \in expected THEN call.payload ELSE None

\* C11: stop was invoked for a call that supplied nodes and a payload
C11_StopGetsNodesOnly ==
    /\ call.command = "stop" /\ call.payload # None
    /\ call.nodes = Nodes(<<"pr2", "pr1">>)
    /\ act.func = "stop_containers" /\ act.kwargs.keys = {"nodes"}

\* the entry of nodes_to_process whose ledger files reset is deleting
ResetNode ==
    LET all == nodes_to_process(act.kwargs.nodes)
    IN  all[Len(all) - Len(todo)]

\* C12: reset runs the delete command of each given node, after the stop has
\* returned, with the directory of that node as its working directory (the
\* nodes root when no nodes are given).
C12_DeleteRunsInNodeDirectory ==
    (call.command = "reset" /\ pc = "reset_rm") =>
        /\ origCall.cmd = reset_nodes_data_cmd
        /\ origCall.cwd =
               IF Truthy(act.kwargs.nodes) THEN NodePath(ResetNode)
               ELSE nano_nodes_path

\* C12: the delete command for pr1 has run with no working directory, the
\* directory of pr1 standing in its shell argument
C12_DeleteRunsInCurrentDirectory ==
    /\ call.command = "reset" /\ pc = "reset_rm"
    /\ call.nodes = Nodes(<<"pr1">>)
    /\ lastRun.cmd = reset_nodes_data_cmd
    /\ lastRun.cwd = None /\ lastRun.shell = NodePath("pr1")
    /\ ret.kind = "return"

\* C13: when start returns normally, the "up" command has returned and every
\* targeted node has answered a readiness probe; no probe is issued before
\* "up" has returned, and none at all when "up" ends in an error.
C13_StartReturnsWhenAllReachable ==
    call.command = "start" =>
        /\ (pc = "done" /\ outcome.kind = "return") =>
              /\ ret.kind = "return"
              /\ lastRun.cmd = run_docker_compose_command(<<"up", "-d">>,
                                                          call.nodes).cmd
              /\ poll.state = "returned"
              /\ \A n \in Targeted(call.nodes) :
                    n \in poll.confirmed /\ <<n, "block_count">> \in rpcLog
        /\ (rpcLog # {} \/ poll.state # "off") => ret.kind = "return"
        /\ ret.kind = "raise" => rpcLog = {} /\ poll = NoPoll

\* C13: start of all nodes has returned after more than one round of probes
C13_StartReturnedAfterRounds ==
    /\ call.command = "start" /\ call.nodes = NoNodes
    /\ pc = "done" /\ outcome.kind = "return"
    /\ poll.rounds >= 2

\* C14: every call of _subprocess_capture_raise ends, whatever the commands
\* and their remediation commands write to stderr: no run of failures keeps
\* it remedying for ever.
C14_CallTerminates == <>(stack = <<>>)

\* C14: the remediation of a remediation command has failed in its turn and
\* is remedied, each of them on its first try
C14_RemediationOfRemediation ==
    /\ Len(stack) = MaxDepth
    /\ \A i \in 1..Len(stack) :
          stack[i].cmd[1] = "docker stop -t 0" /\ stack[i].increment = 0

\* the stderr text an error carries to the caller
Carried(exc) == IF exc.type = "ValueError" THEN exc.msg ELSE exc.stderr

\* C15: when the remediation command of a heal rule ends in an error, the
\* error that reaches the caller carries the stderr of the command that was
\* to be healed, not the stderr of the remediation command.
C15_RemediationFailureCarriesOriginalStderr ==
    [][(Len(stack) = 2 /\ stack' = <<>> /\ ret'.kind = "raise") =>
           Carried(ret'.exc) = stack[1].error.stderr]_vars

\* C15: the remediation command failed with "no such service", and that text
\* reached the caller
C15_RemediationStderrSurfaces ==
    /\ ret.kind = "raise" /\ lastRun.depth = 2
    /\ lastRun.cmd[1] = "docker stop -t 0"
    /\ lastRun.error.stderr = <<"no such service">>
    /\ ret.exc = ValueError(<<"no such service">>)

\* the pattern of a heal rule is in stderr, and the rule that is tried finds
\* no container name after it
ExtractionFails(stderr) ==
    \/ /\ Contains(stderr, address_in_use)
       /\ heal_address_in_use(address_in_use, stderr).do # "run"
    \/ /\ ~Contains(stderr, address_in_use)
       /\ Contains(stderr, docker_in_use)
       /\ heal_docker_in_use(docker_in_use, stderr).do # "run"

\* C16: when the pattern of a heal rule is in stderr but no container name
\* can be taken from it, no remediation runs, the command is not issued
\* again, and the failure of the command is what is raised.
C16_ExtractionFailureRaisesOriginal ==
    (/\ lastRun.depth = 1 /\ lastRun.error # NoError
     /\ ExtractionFails(lastRun.error.stderr)) =>
        /\ stack = <<>> /\ ret.kind = "raise"
        /\ ret.exc = lastRun.error

\* C16: stderr held the address-in-use pattern with no word after it, and an
\* AttributeError was raised
C16_AttributeErrorInstead ==
    /\ lastRun.depth = 1 /\ lastRun.error.stderr = <<address_in_use>>
    /\ stack = <<>> /\ ret.kind = "raise" /\ ret.issued = 1
    /\ ret.exc = AttributeError

\* the probes of the round in progress have all returned
RoundComplete == \A i \in 1..Len(poll.probe) : poll.probe[i] \in {"up", "down"}

\* C17: with wait = true and a list of distinct nodes, a round holds exactly
\* one probe for each node still pending and none for a node confirmed in an
\* earlier round; a round begins only when no probe of the round before is
\* left, each probe is started once, and the pending nodes after a round are
\* those of the pending nodes before it whose probe answered False, whatever
\* the order in which the probes returned.
C17_RoundsSequentialOneProbeEach ==
    /\ [](poll.wait =>
            /\ poll.state = "round" =>
                  /\ Len(poll.probe) = Len(poll.nodes_to_check)
                  /\ \A i \in 1..Len(poll.probe) :
                        poll.probe[i] \in {"queued", "running"} =>
                            poll.nodes_to_check[i] \notin poll.confirmed
            /\ poll.state # "round" =>
                  /\ poll.probe = <<>>
                  /\ Range(poll.nodes_to_check) \cap poll.confirmed = {})
    /\ [][poll.wait =>
            /\ poll'.rounds # poll.rounds =>
                  /\ poll.state = "loop" /\ poll.probe = <<>>
                  /\ poll'.rounds = poll.rounds + 1
                  /\ poll'.nodes_to_check = poll.nodes_to_check
                  /\ poll'.probe =
                         [i \in 1..Len(poll.nodes_to_check) |-> "queued"]
            /\ (poll.state = "round" /\ poll'.state # "round") =>
                  /\ RoundComplete
                  /\ poll'.nodes_to_check =
                         SelectSeq(poll.nodes_to_check,
                                   LAMBDA n : n \notin poll'.confirmed)
            /\ Range(poll'.nodes_to_check) \subseteq Range(poll.nodes_to_check)
            /\ (poll.state = "round" /\ poll'.state = "round") =>
                  \A i \in 1..Len(poll.probe) :
                      poll'.probe[i] # poll.probe[i] =>
                          \/ poll.probe[i] = "queued" /\ poll'.probe[i] = "running"
                          \/ poll.probe[i] = "running"
                                 /\ poll'.probe[i] \in {"up", "down"}
       ]_vars

\* C17: in a second round the one node still pending is probed while the
\* other one, confirmed in the first round, is not
C17_SecondRoundProbesPendingOnly ==
    /\ poll.wait /\ poll.state = "round" /\ poll.rounds = 2
    /\ poll.nodes_name = <<"pr2", "pr1">>
    /\ poll.nodes_to_check = <<"pr1">> /\ poll.probe = <<"running">>
    /\ poll.confirmed = {"pr2"}

\* C18: a status request issues its block_count and version calls only to
\* nodes that the presence check reported online, and none at all when it
\* reported no node online.
C18_StatusQueriesOnlineNodesOnly ==
    call.command = "status" =>
        /\ \A e \in rpcLog :
              e[1] \in Range(online) /\ e[2] \in {"block_count", "version"}
        /\ pc \in {"status_online", "status_rpc"} => rpcLog = {}
        /\ (pc = "done" /\ online = <<>>) =>
              rpcLog = {} /\ rep_metrics = <<>>

\* C18: a status request has ended with no node reported online
C18_StatusWithNoneOnline ==
    /\ call.command = "status" /\ pc = "done"
    /\ online = <<>> /\ running = {}
    /\ outcome.kind = "return"

\* C19: the timeout error is raised only while a targeted node is still
\* unreachable: it never names an empty list of nodes.
C19_TimeoutNamesUnreachableNode ==
    poll.state = "raised" =>
        /\ poll.nodes_to_check # <<>>
        /\ poll.exc # Timeout(<<>>)
        /\ \E n \in Range(poll.nodes_name) : n \notin poll.confirmed

\* C19: both nodes were confirmed by a round that ended past the deadline,
\* and the timeout error was raised
C19_TimeoutWithAllReachable ==
    /\ poll.state = "raised" /\ poll.exc = Timeout(<<>>)
    /\ poll.nodes_name = <<"pr2", "pr1">>
    /\ poll.confirmed = {"pr1", "pr2"}

\* C20: for every non-empty list of collected metrics the report generator
\* returns a report, also when every count is 0.
C20_ReportForEveryMetrics ==
    (rep_out.kind # "none" /\ rep_metrics # <<>>) =>
        rep_out.kind = "return" /\ ~rep_out.empty

\* C20: both declared nodes answered count 0 and the generator raised
C20_DivisionByZeroCount ==
    /\ rep_out.kind = "raise"
    /\ rep_nodes = <<"pr1", "pr2">>
    /\ Len(rep_metrics) = 2 /\ max_count(rep_metrics) = 0
    /\ \A i \in 1..2 : rep_metrics[i].node_name = rep_nodes[i]

\* the call of _wait_for_rpc_availability is over
PollEnded == poll.state \in {"returned", "raised"}

\* the most rounds a call can hold: one for each second up to the deadline,
\* and the one that ends past it
MostRounds == max_timeout_s + 2

\* C21: with wait = true, every probe returning and the clock advancing, the
\* polling always eventually ends; it returns normally only with no node
\* pending, it raises the timeout error only past the deadline, the round
\* that finishes past the deadline is the last one, an earlier round goes
\* back to the head of the loop, and a node that is never reachable holds it
\* for no more rounds than the deadline has seconds, plus two.
C21_PollingAlwaysEnds ==
    /\ poll.wait ~> PollEnded
    /\ [](poll.wait =>
            /\ poll.state = "returned" => poll.nodes_to_check = <<>>
            /\ poll.state = "raised" =>
                  /\ poll.clock > max_timeout_s
                  /\ poll.exc = Timeout(poll.nodes_to_check)
            /\ poll.rounds <= MostRounds)
    /\ [][poll.wait =>
            /\ (poll.state = "round" /\ poll'.state # "round") =>
                  IF poll.clock > max_timeout_s
                  THEN poll'.state = "raised"
                  ELSE poll'.state = "loop"
            /\ poll'.state = "returned" =>
                  poll.state = "loop" /\ poll.nodes_to_check = <<>>
            /\ PollEnded => poll' = poll
       ]_vars

\* C21: a node that no probe ever reached, the clock moved by the sleeps
\* alone, and the timeout error raised after the last possible round
C21_TimeoutAfterMostRounds ==
    /\ poll.wait /\ poll.state = "raised"
    /\ poll.nodes_name = <<"pr1">> /\ poll.confirmed = {}
    /\ poll.rounds = MostRounds
    /\ poll.exc = Timeout(<<"pr1">>)

====
